---- MODULE Spec2Model ----
(***************************************************************************)
(* TradeSignalFlux: the polling pipeline of src/main.py (class TradingBot). *)
(* One process at a time runs run(): load the dedup store, then forever     *)
(* fetch -> process each article -> save -> sleep.  SIGINT/SIGTERM run      *)
(* _shutdown_handler between any two steps of the main thread.  The state   *)
(* file outlives the process, so the model also restarts the process.       *)
(* Spec is that pipeline; SpecRT is a save followed by a load of any store; *)
(* SpecParse is _parse_analysis applied to any of a set of completions,     *)
(* its six regular expressions being matched character by character.        *)
(*                                                                          *)
(* Text is a sequence of one-character strings.  An optional value (a dict  *)
(* key that may be missing, an Optional[...] result) is a sequence of       *)
(* length 0 (missing / None) or 1.                                          *)
(***************************************************************************)
EXTENDS Integers, Sequences, FiniteSets, TLC

\* ------------------------------------------------------------------ bounds
\* Processes started over the life of the state file.
MaxRuns == 2
\* Cycles of the run loop begun over the life of the state file.
MaxCycles == 2
\* Articles the responses of one cycle hold in all.
MaxBatch == 2
\* Hex characters kept of the 32 of an md5 hexdigest.
DigestLen == 2
\* Ghost counters stop counting here ("more than once").
Many == 2
\* Labelled or unlabelled pieces of a completion given to the parser.
MaxSegments == 2

\* ------------------------------------------------------- program constants
\* stop_after_attempt(3)
StopAfterAttempt == 3

\* config["news_categories"], an ordered list
news_categories == <<"business", "technology">>

None == <<>>
Some(x) == <<x>>

\* ------------------------------------------------------------------- text
NL == "\n"
Whitespace == {" ", "\n", "\t", "\r"}

RECURSIVE LStrip(_)
LStrip(s) == IF s # <<>> /\ Head(s) \in Whitespace THEN LStrip(Tail(s)) ELSE s

RECURSIVE RStrip(_)
RStrip(s) ==
    IF s # <<>> /\ s[Len(s)] \in Whitespace THEN RStrip(SubSeq(s, 1, Len(s) - 1)) ELSE s

\* str.strip()
Strip(s) == RStrip(LStrip(s))

\* Mutant of JoinLines: "".join(tokens)
RECURSIVE JoinNoSeparator(_)
JoinNoSeparator(tokens) ==
    IF tokens = <<>> THEN <<>> ELSE tokens[1] \o JoinNoSeparator(Tail(tokens))

\* "\n".join(tokens), tokens in the order given
RECURSIVE JoinLines(_)
JoinLines(tokens) ==
    IF tokens = <<>> THEN <<>>
    ELSE IF Len(tokens) = 1 THEN tokens[1]
    ELSE tokens[1] \o <<NL>> \o JoinLines(Tail(tokens))

\* Iterating a text file: the lines, each with its newline, the last maybe without.
RECURSIVE FileLines(_, _)
FileLines(text, cur) ==
    IF text = <<>> THEN (IF cur = <<>> THEN <<>> ELSE <<cur>>)
    ELSE IF Head(text) = NL THEN <<Append(cur, NL)>> \o FileLines(Tail(text), <<>>)
    ELSE FileLines(Tail(text), Append(cur, Head(text)))

\* {line.strip() for line in f if line.strip()}
ParseTokens(text) ==
    LET lines == FileLines(text, <<>>)
    IN  {Strip(lines[k]) : k \in {j \in 1..Len(lines) : Strip(lines[j]) # <<>>}}

\* The orders in which iterating a set may yield its members.
Orders(S) ==
    {o \in [1..Cardinality(S) -> S] : \A j, k \in 1..Cardinality(S) : o[j] = o[k] => j = k}

\* --------------------------------------------------------------- articles
\* A feed entry: a dict with optional title/description, a "source" that is a
\* dict or not and a publishedAt that fromisoformat parses or not; or something
\* that is no dict at all.
Article(isDict, title, description, sourceIsDict, dateParses) ==
    [dict |-> isDict, title |-> title, description |-> description,
     source |-> sourceIsDict, publishedAt |-> dateParses]

A_a    == Article(TRUE, Some(<<"a">>), None, TRUE, TRUE)
A_ab   == Article(TRUE, Some(<<"a">>), Some(<<"b">>), TRUE, FALSE)
A_nohl == Article(TRUE, None, Some(<<"a">>), TRUE, TRUE)
A_src  == Article(TRUE, Some(<<"a", "b">>), None, FALSE, TRUE)
A_bad  == Article(FALSE, None, None, FALSE, FALSE)

\* The entries a response may hold.  A_a and A_nohl have one fingerprint, and so
\* have A_ab and A_src.
Articles == {A_a, A_ab, A_nohl, A_src, A_bad}

\* article.get(key, default)
Get(opt, default) == IF opt = None THEN default ELSE opt[1]

\* hashlib.md5(content.encode()).hexdigest(), on the contents the feed can produce
MD5Hex(content) ==
    CASE content = <<>>         -> <<"d","4","1","d","8","c","d","9">>
      [] content = <<"a">>      -> <<"0","c","c","1","7","5","b","9">>
      [] content = <<"b">>      -> <<"9","2","e","b","5","f","f","e">>
      [] content = <<"a","b">>  -> <<"1","8","7","e","f","4","4","3">>
      [] content = <<"b","a">>  -> <<"0","7","1","5","9","c","4","7">>

hexdigest(content) == SubSeq(MD5Hex(content), 1, DigestLen)

generate_article_id(article) ==
    hexdigest(Get(article.title, <<>>) \o Get(article.description, <<>>))

Fingerprints == {generate_article_id(a) : a \in {b \in Articles : b.dict}}

\* ----------------------------------------------------------------- parser
\* The labels of the six patterns of _parse_analysis, in the order of the dict.
RecommendationLabel == <<"R", "e", "c", "o", "m", "m", "e", "n", "d", "a", "t", "i", "o", "n", ":">>
ConfidenceLabel == <<"C", "o", "n", "f", "i", "d", "e", "n", "c", "e", ":">>
RiskLabel == <<"R", "i", "s", "k", ":">>
WhyLabel == <<"W", "h", "y", ":">>
TickerLabel == <<"T", "i", "c", "k", "e", "r", ":">>
SectorLabel == <<"S", "e", "c", "t", "o", "r", ":">>

\* The alternatives of the three enumerated fields, in the order of the pattern.
Buy == <<"B", "u", "y">>
Sell == <<"S", "e", "l", "l">>
Hold == <<"H", "o", "l", "d">>
Low == <<"L", "o", "w">>
Medium == <<"M", "e", "d", "i", "u", "m">>
High == <<"H", "i", "g", "h">>

\* The sentinel "N/A"
NA == <<"N", "/", "A">>

UpperCase == <<"A", "B", "C", "D", "E", "F", "G", "H", "I", "J", "K", "L", "M", "N", "O", "P", "Q", "R", "S", "T", "U", "V", "W", "X", "Y", "Z">>
LowerCase == <<"a", "b", "c", "d", "e", "f", "g", "h", "i", "j", "k", "l", "m", "n", "o", "p", "q", "r", "s", "t", "u", "v", "w", "x", "y", "z">>

ToLower == [c \in {UpperCase[k] : k \in 1..26} |-> LowerCase[CHOOSE k \in 1..26 : UpperCase[k] = c]]

\* re.IGNORECASE: two characters match when their lower cases are equal
Fold(c) == IF c \in DOMAIN ToLower THEN ToLower[c] ELSE c

\* [A-Z] under re.IGNORECASE
IsLetter(c) == Fold(c) \in {LowerCase[k] : k \in 1..26}

\* The literal `lit` matches `text` at position p, case ignored.
LitAt(text, p, lit) ==
    /\ p + Len(lit) - 1 <= Len(text)
    /\ \A k \in 1..Len(lit) : Fold(text[p + k - 1]) = Fold(lit[k])

\* \s* from position p: the position after the longest run of whitespace.
RECURSIVE SkipSpace(_, _)
SkipSpace(text, p) ==
    IF p <= Len(text) /\ text[p] \in Whitespace THEN SkipSpace(text, p + 1) ELSE p

\* `$` without re.MULTILINE: the end of the text, or just before a newline that
\* ends the text.
AtEnd(text, p) == p = Len(text) + 1 \/ (p = Len(text) /\ text[p] = NL)

\* `Label:\s*(w1|w2|w3)` tried at position s: None, or group 1.  Giving back
\* whitespace of \s* cannot help: no alternative starts with whitespace.
WordsMatchAt(text, s, label, words) ==
    IF ~LitAt(text, s, label) THEN None
    ELSE LET q == SkipSpace(text, s + Len(label))
             hits == {k \in 1..Len(words) : LitAt(text, q, words[k])}
         IN  IF hits = {} THEN None
             ELSE LET k == CHOOSE h \in hits : \A g \in hits : h <= g
                  IN  Some(SubSeq(text, q, q + Len(words[k]) - 1))

\* [A-Z]{1,n}, greedy, from position q: how many letters it takes.
RECURSIVE Letters(_, _, _)
Letters(text, q, n) ==
    IF n > 0 /\ q <= Len(text) /\ IsLetter(text[q]) THEN 1 + Letters(text, q + 1, n - 1) ELSE 0

\* `Ticker:\s*([A-Z]{1,5})` tried at position s
TickerMatchAt(text, s) ==
    IF ~LitAt(text, s, TickerLabel) THEN None
    ELSE LET q == SkipSpace(text, s + Len(TickerLabel))
             n == Letters(text, q, 5)
         IN  IF n = 0 THEN None ELSE Some(SubSeq(text, q, q + n - 1))

\* The lookahead (?=\s*Ticker:|$) holds at position e.
WhyStops(text, e) == LitAt(text, SkipSpace(text, e), TickerLabel) \/ AtEnd(text, e)

\* (.*?) followed by the lookahead, from position e on: the first position where the
\* lookahead holds, no newline being passed (`.` does not match one); None if none.
RECURSIVE WhyEnd(_, _)
WhyEnd(text, e) ==
    IF WhyStops(text, e) THEN Some(e)
    ELSE IF e <= Len(text) /\ text[e] # NL THEN WhyEnd(text, e + 1)
    ELSE None

\* `Why:\s*(.*?)(?=\s*Ticker:|$)` tried at position s.  Giving back whitespace of
\* \s* cannot help: the group would pass the same characters again.
WhyMatchAt(text, s) ==
    IF ~LitAt(text, s, WhyLabel) THEN None
    ELSE LET q == SkipSpace(text, s + Len(WhyLabel))
             e == WhyEnd(text, q)
         IN  IF e = None THEN None ELSE Some(SubSeq(text, q, e[1] - 1))

\* The rest of (.+?)(?=$) after its first character: the first position where `$`
\* holds, no newline being passed (None if none).
RECURSIVE SectorEnd(_, _)
SectorEnd(text, e) ==
    IF AtEnd(text, e) THEN Some(e)
    ELSE IF e <= Len(text) /\ text[e] # NL THEN SectorEnd(text, e + 1)
    ELSE None

\* (.+?)(?=$) from position q: None, or the position after the group.
SectorFrom(text, q) ==
    IF q <= Len(text) /\ text[q] # NL THEN SectorEnd(text, q + 1) ELSE None

\* \s* gives whitespace back, one character at a time from q down to p, until the
\* rest of the pattern matches.
RECURSIVE SectorBacktrack(_, _, _)
SectorBacktrack(text, p, q) ==
    IF q < p THEN None
    ELSE IF SectorFrom(text, q) # None THEN Some(SubSeq(text, q, SectorFrom(text, q)[1] - 1))
    ELSE SectorBacktrack(text, p, q - 1)

\* `Sector:\s*(.+?)(?=$)` tried at position s
SectorMatchAt(text, s) ==
    IF ~LitAt(text, s, SectorLabel) THEN None
    ELSE SectorBacktrack(text, s + Len(SectorLabel), SkipSpace(text, s + Len(SectorLabel)))

\* The keys of `patterns`, in the order of the dict.
FieldNames == <<"Recommendation", "Confidence", "Risk", "Why", "Ticker", "Sector">>

\* patterns[key] tried at position s of text: None, or group 1.
MatchAt(key, text, s) ==
    CASE key = "Recommendation" -> WordsMatchAt(text, s, RecommendationLabel, <<Buy, Sell, Hold>>)
      [] key = "Confidence" -> WordsMatchAt(text, s, ConfidenceLabel, <<Low, Medium, High>>)
      [] key = "Risk" -> WordsMatchAt(text, s, RiskLabel, <<Low, Medium, High>>)
      [] key = "Why" -> WhyMatchAt(text, s)
      [] key = "Ticker" -> TickerMatchAt(text, s)
      [] key = "Sector" -> SectorMatchAt(text, s)

\* re.search(patterns[key], text, re.IGNORECASE): the match at the first position
\* where the pattern matches.
Search(key, text) ==
    LET hits == {s \in 1..Len(text) : MatchAt(key, text, s) # None}
    IN  IF hits = {} THEN None
        ELSE MatchAt(key, text, CHOOSE h \in hits : \A g \in hits : h <= g)

\* line 130: match.group(1).strip() if match else "N/A"
Field(match) == IF match = None THEN NA ELSE Strip(match[1])

\* _parse_analysis
parse_analysis(content) ==
    [key \in {FieldNames[k] : k \in 1..6} |-> Field(Search(key, content))]

\* ---------------------------------------------------------------- analysis
\* The completions the analyzer service answers with in the pipeline: one naming a
\* ticker, one naming none.
AnalyzerContents ==
    {TickerLabel \o <<" ">> \o <<"A", "A", "P", "L">>,
     SectorLabel \o <<" ">> \o <<"I", "T">>}

\* What _analyze_article can come to: the request or the JSON fails and it returns
\* None, or it returns the parse of the completion.
AnalyzerResponses ==
    {[content |-> None, result |-> None]}
    \cup {[content |-> Some(c), result |-> Some(parse_analysis(c))] : c \in AnalyzerContents}

\* ------------------------------------------------------------------ state
VARIABLES
    pc,                  \* where the main thread is (see the actions)
    exit_status,         \* None while the process runs, else its exit status
    processed_articles,  \* self.processed_articles
    file,                \* config["processed_articles_file"]: [exists, text]
    all_articles,        \* _fetch_news: all_articles; then run's `articles`
    cat,                 \* _fetch_news: index of the category being fetched
    attempt,             \* tenacity: attempt number of the current category
    i,                   \* run: index of `article` in `articles`
    article_id,          \* _process_article: article_id (None before line 165)
    analysis,            \* _process_article: analysis (None or a dict)
    content,             \* _analyze_article: content, the completion's text (None
                         \*   before line 112)
    published_at,        \* _format_telegram_message: published_at
    run,                 \* processes started so far
    cycle,               \* cycles begun since the state file was new
    \* history (ghost) variables
    contributed,         \* per category: not "asked" yet, "failed" for good, or "ok"
                         \*   with the articles it returned
    response,            \* what the latest request of this _fetch_news came to
                         \*   ("" before the first)
    outcome,             \* how the current _process_article ended
    step_sends,          \* sends attempted in the current _process_article
    send_ok,             \* None, or whether the send of this step succeeded
    sent_run,            \* per fingerprint: sends attempted in this process
    sent_life,           \* per fingerprint: sends attempted since the file was new
    last_analysis,       \* per fingerprint: "never" analysed, or whether the latest
                         \*   analysis came back "absent" (None) or a "result"
    prior,               \* last_analysis of the fingerprint when this step called
                         \*   the analyzer ("" while it has not)
    added_cycle,         \* fingerprints added to the store in this cycle
    signum,              \* None, or the last signal delivered to this process
    signal_at,           \* where the main thread was when it was delivered
    saved,               \* None, or the set the last successful save of this
                         \*   process wrote
    save_ok              \* None, or whether the last save wrote the file

prog == <<pc, exit_status, processed_articles, file, all_articles, cat, attempt, i,
          article_id, analysis, content, published_at, run, cycle>>
ghost == <<contributed, response, outcome, step_sends, send_ok, sent_run, sent_life,
           last_analysis, prior, added_cycle, signum, signal_at, saved, save_ok>>
vars == <<prog, ghost>>

NoFile == [exists |-> FALSE, text |-> <<>>]
Zero == [f \in Fingerprints |-> 0]
Never == [f \in Fingerprints |-> "never"]
Contribution(state, articles) == [state |-> state, articles |-> articles]
NoContribution == [c \in 1..Len(news_categories) |-> Contribution("not_asked", <<>>)]
Bump(count, f) == [count EXCEPT ![f] = IF @ < Many THEN @ + 1 ELSE @]

\* A process at the entry of run(), holding `store`; the ghost history of the file's
\* lifetime is given.  TradingBot.__init__ makes the store empty.
Construct(store, life_sent, life_analysed, n, cycles) ==
    /\ pc = "load"
    /\ exit_status = None
    /\ processed_articles = store
    /\ all_articles = <<>>
    /\ cat = 1
    /\ attempt = 1
    /\ i = 1
    /\ article_id = None
    /\ analysis = None
    /\ content = None
    /\ published_at = ""
    /\ run = n
    /\ cycle = cycles
    /\ contributed = NoContribution
    /\ response = ""
    /\ outcome = ""
    /\ step_sends = 0
    /\ send_ok = None
    /\ sent_run = Zero
    /\ sent_life = life_sent
    /\ last_analysis = life_analysed
    /\ prior = ""
    /\ added_cycle = {}
    /\ signum = None
    /\ signal_at = ""
    /\ saved = None
    /\ save_ok = None

Init == file = NoFile /\ Construct({}, Zero, Never, 1, 0)

\* ------------------------------------------------------------- exceptions
\* Mutant of InTry: the try of run() covers the fetch only.
InTryFetchOnly(at) == at \in {"fetch", "request", "fetched"}

\* The main thread at `at` is inside the try of run()'s loop (lines 183-188); the
\* load of line 180 is before it.
InTry(at) == at # "load"

\* Where an exception raised at `at` takes the main thread: to the `except
\* Exception` of line 189, or out of run().
Raised(at) == IF InTry(at) THEN "except" ELSE "crashed"

\* The exit status after an exception raised at `at`.
RaisedStatus(at, status) == IF InTry(at) THEN status ELSE Some(1)

\* ------------------------------------------------------------ dedup store
\* Mutant of WrittenFiles: the file is opened for writing and nothing is written.
WritesNothing(store) == {[exists |-> TRUE, text |-> <<>>]}

\* The file after _save_processed_articles has written it: the join of the set in
\* some iteration order.
WrittenFiles(store) == {[exists |-> TRUE, text |-> JoinLines(o)] : o \in Orders(store)}

\* The file after _save_processed_articles has caught an exception: the old file
\* (open failed) or an empty one (open truncated it and the write failed).
FailedFiles(old) == {old, [exists |-> TRUE, text |-> <<>>]}

\* _save_processed_articles
Save ==
    \/ \E f \in WrittenFiles(processed_articles) :
          /\ file' = f
          /\ save_ok' = Some(TRUE)
          /\ saved' = Some(processed_articles)
    \/ \E f \in FailedFiles(file) :
          /\ file' = f
          /\ save_ok' = Some(FALSE)
          /\ UNCHANGED saved

\* _load_processed_articles, the file being readable
LoadedSet(f) == ParseTokens(f.text)

\* _load_processed_articles
LoadProcessedArticles ==
    /\ pc = "load"
    /\ \/ /\ file.exists
          /\ processed_articles' = LoadedSet(file)
          /\ pc' = "fetch"
          /\ UNCHANGED exit_status
       \/ /\ ~file.exists                \* FileNotFoundError: caught, set unchanged
          /\ pc' = "fetch"
          /\ UNCHANGED <<processed_articles, exit_status>>
       \/ /\ file.exists                 \* any other OSError is not caught
          /\ pc' = Raised(pc)
          /\ exit_status' = RaisedStatus(pc, exit_status)
          /\ UNCHANGED processed_articles
    /\ UNCHANGED <<file, all_articles, cat, attempt, i, article_id, analysis, content,
                   published_at, run, cycle, ghost>>

\* ---------------------------------------------------------------- fetcher
\* Sequences over S of length 0..n
RECURSIVE SeqsUpTo(_, _)
SeqsUpTo(S, n) ==
    IF n = 0 THEN {<<>>}
    ELSE LET shorter == SeqsUpTo(S, n - 1)
         IN  shorter \cup {Append(q, x) : q \in shorter, x \in S}

\* What one GET of top-headlines can come to inside _fetch_news_for_category.
Responses ==
    {[kind |-> k, articles |-> <<>>] : k \in {"network_error", "http_error", "no_articles_list"}}
    \cup {[kind |-> "ok", articles |-> q] : q \in SeqsUpTo(Articles, MaxBatch)}

\* Mutant of Returns: a body without a list of articles gives an empty result.
ReturnsAnyBody(resp) == resp.kind \in {"ok", "no_articles_list"}

\* The body of _fetch_news_for_category returns (does not raise) on this response.
Returns(resp) == resp.kind = "ok"

\* tenacity: after a failed attempt, try again?
RetryAgain(n) == n < StopAfterAttempt

\* Mutant of NextCategory: the for loop ends with the first category.
NextCategoryAbort(c) == "fetched"

\* After the category at index c: the next one, or the end of the for loop.
NextCategory(c) == IF c < Len(news_categories) THEN "request" ELSE "fetched"

\* _fetch_news, entry (a new cycle of run's loop begins)
FetchNews ==
    /\ pc = "fetch"
    /\ cycle < MaxCycles
    /\ cycle' = cycle + 1
    /\ all_articles' = <<>>
    /\ cat' = 1
    /\ attempt' = 1
    /\ contributed' = NoContribution
    /\ response' = ""
    /\ added_cycle' = {}
    /\ save_ok' = None
    /\ pc' = IF Len(news_categories) = 0 THEN "fetched" ELSE "request"
    /\ UNCHANGED <<exit_status, processed_articles, file, i, article_id, analysis, content,
                   published_at, run>>
    /\ UNCHANGED <<outcome, step_sends, send_ok, sent_run, sent_life, last_analysis,
                   prior, signum, signal_at, saved>>

\* One attempt of _fetch_news_for_category(news_categories[cat]) under @retry, and
\* what _fetch_news does with its result.
FetchRequest ==
    /\ pc = "request"
    /\ \E resp \in {r \in Responses : Len(all_articles) + Len(r.articles) <= MaxBatch} :
          /\ response' = resp.kind
          /\ IF Returns(resp)
             THEN /\ all_articles' = all_articles \o resp.articles
                  /\ contributed' = [contributed EXCEPT
                                         ![cat] = Contribution("ok", resp.articles)]
                  /\ cat' = cat + 1
                  /\ attempt' = 1
                  /\ pc' = NextCategory(cat)
             ELSE IF RetryAgain(attempt)
             THEN /\ attempt' = attempt + 1
                  /\ UNCHANGED <<all_articles, contributed, cat, pc>>
             ELSE \* reraise=True; _fetch_news logs it and goes on
                  /\ contributed' = [contributed EXCEPT ![cat] = Contribution("failed", <<>>)]
                  /\ cat' = cat + 1
                  /\ attempt' = 1
                  /\ pc' = NextCategory(cat)
                  /\ UNCHANGED all_articles
    /\ UNCHANGED <<exit_status, processed_articles, file, i, article_id, analysis, content,
                   published_at, run, cycle>>
    /\ UNCHANGED <<outcome, step_sends, send_ok, sent_run, sent_life, last_analysis,
                   prior, added_cycle, signum, signal_at, saved, save_ok>>

\* run: `for article in articles:` is entered
BeginLoop ==
    /\ pc = "fetched"
    /\ i' = 1
    /\ cat' = 1
    /\ contributed' = NoContribution
    /\ response' = ""
    /\ pc' = IF all_articles = <<>> THEN "save" ELSE "process"
    /\ UNCHANGED <<exit_status, processed_articles, file, all_articles, attempt,
                   article_id, analysis, content, published_at, run, cycle>>
    /\ UNCHANGED <<outcome, step_sends, send_ok, sent_run, sent_life, last_analysis,
                   prior, added_cycle, signum, signal_at, saved, save_ok>>

\* ------------------------------------------------------------ one article
article == all_articles[i]

\* `if not headline`
NoHeadline(a) == a.title = None \/ a.title[1] = <<>>

\* Mutant of Accepts: the Ticker is not looked at.
AcceptsAnyResult(an) == an # None

\* Mutant of Accepts: `analysis is None or ...`
AcceptsAbsent(an) == an = None \/ an[1].Ticker # NA

\* line 174: `analysis and analysis.get("Ticker") != "N/A"`
Accepts(an) == an # None /\ an[1].Ticker # NA

\* Mutant of MarkProcessed: the fingerprint is added only when the send succeeded.
MarkIfDelivered(store, id) == IF send_ok = Some(TRUE) THEN store \cup {id} ELSE store

\* Mutant of MarkProcessed: the store is replaced by the new fingerprint.
MarkReplaces(store, id) == {id}

\* Mutant of MarkProcessed: the add is missing.
MarkNothing(store, id) == store

\* line 177: self.processed_articles.add(article_id)
MarkProcessed(store, id) == store \cup {id}

\* _process_article, lines 165-171
ProcessArticle ==
    /\ pc = "process"
    /\ IF ~article.dict
       THEN \* article.get raises AttributeError: up to run's `except Exception`
            /\ pc' = Raised(pc)
            /\ exit_status' = RaisedStatus(pc, exit_status)
            /\ outcome' = "raised"
            /\ UNCHANGED article_id
       ELSE /\ article_id' = Some(generate_article_id(article))
            /\ UNCHANGED exit_status
            /\ IF generate_article_id(article) \in processed_articles
               THEN pc' = "return" /\ outcome' = "seen"
               ELSE IF NoHeadline(article)
               THEN pc' = "return" /\ outcome' = "no_headline"
               ELSE pc' = "analyze" /\ outcome' = ""
    /\ UNCHANGED <<processed_articles, file, all_articles, cat, attempt, i,
                   analysis, content, published_at, run, cycle>>
    /\ UNCHANGED <<contributed, step_sends, send_ok, sent_run, sent_life,
                   last_analysis, prior, added_cycle, signum, response, signal_at, saved, save_ok>>

\* lines 173-174: _analyze_article(headline) and the accept filter
AnalyzeArticle ==
    /\ pc = "analyze"
    /\ \E resp \in AnalyzerResponses :
          /\ content' = resp.content
          /\ analysis' = resp.result
          /\ last_analysis' = [last_analysis EXCEPT ![article_id[1]] =
                                    IF resp.result = None THEN "absent" ELSE "result"]
          /\ IF Accepts(resp.result)
             THEN pc' = "format" /\ outcome' = ""
             ELSE /\ pc' = "return"
                  /\ outcome' = IF resp.result = None THEN "absent" ELSE "rejected"
    /\ prior' = last_analysis[article_id[1]]
    /\ UNCHANGED <<exit_status, processed_articles, file, all_articles, cat, attempt, i,
                   article_id, published_at, run, cycle>>
    /\ UNCHANGED <<contributed, step_sends, send_ok, sent_run, sent_life,
                   added_cycle, signum, response, signal_at, saved, save_ok>>

\* _format_telegram_message, lines 144-146: entering the try block
FormatEnterTry ==
    /\ pc = "format"
    /\ pc' = "format_try"
    /\ UNCHANGED <<exit_status, processed_articles, file, all_articles, cat, attempt, i,
                   article_id, analysis, content, published_at, run, cycle, ghost>>

\* lines 147-151: the publish date, "N/A" when it does not parse
FormatDate ==
    /\ pc = "format_try"
    /\ published_at' = IF article.publishedAt THEN "date" ELSE "N/A"
    /\ pc' = "format_return"
    /\ UNCHANGED <<exit_status, processed_articles, file, all_articles, cat, attempt, i,
                   article_id, analysis, content, run, cycle, ghost>>

\* lines 153-162: the message; article.get('source', {}).get raises when the
\* source is not a dict
FormatMessage ==
    /\ pc = "format_return"
    /\ IF article.source
       THEN pc' = "send" /\ UNCHANGED <<outcome, exit_status>>
       ELSE /\ pc' = Raised(pc)
            /\ exit_status' = RaisedStatus(pc, exit_status)
            /\ outcome' = "raised"
    /\ UNCHANGED <<processed_articles, file, all_articles, cat, attempt, i,
                   article_id, analysis, content, published_at, run, cycle>>
    /\ UNCHANGED <<contributed, step_sends, send_ok, sent_run, sent_life,
                   last_analysis, prior, added_cycle, signum, response, signal_at, saved, save_ok>>

\* line 176: _send_telegram_message; a RequestException is logged, nothing is raised
SendTelegramMessage ==
    /\ pc = "send"
    /\ \E delivered \in BOOLEAN : send_ok' = Some(delivered)
    /\ step_sends' = step_sends + 1
    /\ sent_run' = Bump(sent_run, article_id[1])
    /\ sent_life' = Bump(sent_life, article_id[1])
    /\ pc' = "mark"
    /\ UNCHANGED <<exit_status, processed_articles, file, all_articles, cat, attempt, i,
                   article_id, analysis, content, published_at, run, cycle>>
    /\ UNCHANGED <<contributed, outcome, last_analysis, prior, added_cycle,
                   signum, response, signal_at, saved, save_ok>>

\* line 177
Mark ==
    /\ pc = "mark"
    /\ processed_articles' = MarkProcessed(processed_articles, article_id[1])
    /\ added_cycle' = added_cycle \cup (processed_articles' \ processed_articles)
    /\ outcome' = "notified"
    /\ pc' = "return"
    /\ UNCHANGED <<exit_status, file, all_articles, cat, attempt, i, article_id, analysis, content,
                   published_at, run, cycle>>
    /\ UNCHANGED <<contributed, step_sends, send_ok, sent_run, sent_life,
                   last_analysis, prior, signum, response, signal_at, saved, save_ok>>

\* _process_article has returned: the for loop takes the next article, or ends
NextArticle ==
    /\ pc = "return"
    /\ i' = i + 1
    /\ pc' = IF i < Len(all_articles) THEN "process" ELSE "save"
    /\ article_id' = None
    /\ analysis' = None
    /\ content' = None
    /\ published_at' = ""
    /\ outcome' = ""
    /\ step_sends' = 0
    /\ send_ok' = None
    /\ prior' = ""
    /\ UNCHANGED <<exit_status, processed_articles, file, all_articles, cat, attempt,
                   run, cycle>>
    /\ UNCHANGED <<contributed, sent_run, sent_life, last_analysis,
                   added_cycle, signum, response, signal_at, saved, save_ok>>

\* --------------------------------------------------------------- run loop
\* Mutant of AfterSave: a failed write is raised to run().
AfterSaveRaising(ok) == IF ok = Some(TRUE) THEN "sleep" ELSE "except"

\* Where run() is after _save_processed_articles: the `except Exception` of line 63
\* keeps a failed write inside it.
AfterSave(ok) == "sleep"

\* line 187: self._save_processed_articles() at the end of a cycle
SaveProcessedArticles ==
    /\ pc = "save"
    /\ Save
    /\ pc' = AfterSave(save_ok')
    /\ UNCHANGED <<exit_status, processed_articles, all_articles, cat, attempt, i,
                   article_id, analysis, content, published_at, run, cycle>>
    /\ UNCHANGED <<contributed, outcome, step_sends, send_ok, sent_run,
                   sent_life, last_analysis, prior, added_cycle, signum, response, signal_at>>

\* line 188: time.sleep(config["fetch_interval_seconds"]) is over, or it raised:
\* the key is missing (KeyError) or its value is no number (TypeError)
Sleep ==
    /\ pc = "sleep"
    /\ \/ pc' = "fetch" /\ UNCHANGED exit_status
       \/ pc' = Raised(pc) /\ exit_status' = RaisedStatus(pc, exit_status)
    /\ UNCHANGED <<processed_articles, file, all_articles, cat, attempt, i,
                   article_id, analysis, content, published_at, run, cycle, ghost>>

\* lines 189-191: `except Exception`: log, time.sleep(60), back to the top of the loop
Backoff ==
    /\ pc = "except"
    /\ pc' = "fetch"
    /\ article_id' = None
    /\ analysis' = None
    /\ content' = None
    /\ published_at' = ""
    /\ outcome' = ""
    /\ step_sends' = 0
    /\ send_ok' = None
    /\ prior' = ""
    /\ UNCHANGED <<exit_status, processed_articles, file, all_articles, cat, attempt, i,
                   run, cycle>>
    /\ UNCHANGED <<contributed, sent_run, sent_life, last_analysis,
                   added_cycle, signum, response, signal_at, saved, save_ok>>

\* ----------------------------------------------------------------- signals
Signals == {"SIGINT", "SIGTERM"}

Running == pc \notin {"exited", "crashed"}

\* exit(0) raises SystemExit in the main thread where the signal found it; the bare
\* `except:` of line 150 catches it when that is inside the try block of line 147.
CatchesSystemExit(at) == at = "format_try"

\* _shutdown_handler, run between two steps of the main thread.  When the process
\* exits, nothing of its memory is left.
ShutdownHandler ==
    /\ Running
    /\ \E sig \in Signals : signum' = Some(sig)
    /\ signal_at' = pc
    /\ Save
    /\ IF CatchesSystemExit(pc)
       THEN /\ published_at' = "N/A"
            /\ pc' = "format_return"
            /\ UNCHANGED <<exit_status, processed_articles, all_articles, cat, attempt,
                           i, article_id, analysis, content>>
            /\ UNCHANGED <<contributed, response, outcome, step_sends, send_ok>>
       ELSE /\ pc' = "exited"
            /\ exit_status' = Some(0)
            /\ processed_articles' = {}
            /\ all_articles' = <<>>
            /\ cat' = 1
            /\ attempt' = 1
            /\ i' = 1
            /\ article_id' = None
            /\ analysis' = None
            /\ content' = None
            /\ published_at' = ""
            /\ contributed' = NoContribution
            /\ response' = ""
            /\ outcome' = ""
            /\ step_sends' = 0
            /\ send_ok' = None
    /\ UNCHANGED <<run, cycle, sent_run, sent_life, last_analysis, added_cycle>>
    /\ IF CatchesSystemExit(pc) THEN UNCHANGED prior ELSE prior' = ""

\* The bot is started again on the same state file (__init__, then run()).
Restart ==
    /\ ~Running
    /\ run < MaxRuns
    /\ pc' = "load"
    /\ exit_status' = None
    /\ processed_articles' = {}
    /\ all_articles' = <<>>
    /\ cat' = 1
    /\ attempt' = 1
    /\ i' = 1
    /\ article_id' = None
    /\ analysis' = None
    /\ content' = None
    /\ published_at' = ""
    /\ run' = run + 1
    /\ contributed' = NoContribution
    /\ response' = ""
    /\ outcome' = ""
    /\ step_sends' = 0
    /\ send_ok' = None
    /\ prior' = ""
    /\ sent_run' = Zero
    /\ added_cycle' = {}
    /\ signum' = None
    /\ signal_at' = ""
    /\ saved' = None
    /\ save_ok' = None
    /\ UNCHANGED <<file, cycle, sent_life, last_analysis>>

Next ==
    \/ LoadProcessedArticles
    \/ FetchNews
    \/ FetchRequest
    \/ BeginLoop
    \/ ProcessArticle
    \/ AnalyzeArticle
    \/ FormatEnterTry
    \/ FormatDate
    \/ FormatMessage
    \/ SendTelegramMessage
    \/ Mark
    \/ NextArticle
    \/ SaveProcessedArticles
    \/ Sleep
    \/ Backoff
    \/ ShutdownHandler
    \/ Restart

Spec == Init /\ [][Next]_vars

\* ------------------------------------------------- persistence round trip
\* The tokens a store can hold: hexdigests.
Tokens == {hexdigest(c) : c \in {<<>>, <<"a">>, <<"b">>, <<"a", "b">>, <<"b", "a">>}}

\* A process holding any set of tokens is about to save it.
InitRT ==
    /\ file = NoFile
    /\ \E S \in SUBSET Tokens : Construct(S, Zero, Never, 1, 0)

\* _save_processed_articles writes the file; the next process starts empty.
RTSave ==
    /\ pc = "load"
    /\ saved = None
    /\ \E f \in WrittenFiles(processed_articles) :
          /\ file' = f
          /\ save_ok' = Some(TRUE)
          /\ saved' = Some(processed_articles)
    /\ processed_articles' = {}
    /\ UNCHANGED <<pc, exit_status, all_articles, cat, attempt, i, article_id, analysis, content,
                   published_at, run, cycle>>
    /\ UNCHANGED <<contributed, outcome, step_sends, send_ok, sent_run, sent_life,
                   last_analysis, prior, added_cycle, signum, response, signal_at>>

\* _load_processed_articles reads it back
RTLoad ==
    /\ saved # None
    /\ LoadProcessedArticles

NextRT == RTSave \/ RTLoad

SpecRT == InitRT /\ [][NextRT]_vars

\* ------------------------------------------------------- the parser alone
\* The patterns' labels, in the order of the dict.
Labels == <<RecommendationLabel, ConfidenceLabel, RiskLabel, WhyLabel, TickerLabel, SectorLabel>>

\* Pieces of text a completion is made of here.
AAPL == <<"A", "A", "P", "L">>
Rationale == <<"x", " ", "y">>
Phrases == {Buy, <<"h", "o", "l", "d">>, High, AAPL, <<"a", "a", "p", "l">>, Rationale, NA}

\* The value a well-formed completion gives the k-th label.
Canonical == <<Buy, High, High, Rationale, AAPL, Rationale>>

\* A piece of a completion: prose, or a label, a space and a phrase.
Segments == Phrases \cup {Labels[k] \o <<" ">> \o v : k \in 1..6, v \in Phrases}

\* Texts of up to n segments, separated by a space or a newline.
RECURSIVE TextsUpTo(_)
TextsUpTo(n) ==
    IF n = 0 THEN {<<>>}
    ELSE LET shorter == TextsUpTo(n - 1)
         IN  shorter \cup Segments
             \cup {t \o <<sep>> \o g : t \in shorter \ {<<>>}, sep \in {" ", NL}, g \in Segments}

\* The k-th and later of the labelled segments `order` names, separated by sep.
RECURSIVE JoinLabelled(_, _, _)
JoinLabelled(order, k, sep) ==
    IF k > Len(order) THEN <<>>
    ELSE Labels[order[k]] \o <<" ">> \o Canonical[order[k]]
         \o (IF k < Len(order) THEN <<sep>> ELSE <<>>) \o JoinLabelled(order, k + 1, sep)

\* All six labels with their canonical values, in every order.
AllSix == {JoinLabelled(o, 1, sep) : o \in Orders(1..6), sep \in {" ", NL}}

\* The completions given to the parser: the empty text, texts without labels, texts
\* with some labels (n segments at most), with all six in any order; each also with a
\* final newline.
Contents(n) == {t \o tail : t \in TextsUpTo(n) \cup AllSix, tail \in {<<>>, <<NL>>}}

\* _analyze_article has the completion's text (line 112) and is about to parse it.
InitParse ==
    /\ \E c \in Contents(MaxSegments) : content = Some(c)
    /\ pc = "parse"
    /\ exit_status = None
    /\ processed_articles = {}
    /\ file = NoFile
    /\ all_articles = <<>>
    /\ cat = 1
    /\ attempt = 1
    /\ i = 1
    /\ article_id = None
    /\ analysis = None
    /\ published_at = ""
    /\ run = 1
    /\ cycle = 1
    /\ contributed = NoContribution
    /\ response = ""
    /\ outcome = ""
    /\ step_sends = 0
    /\ send_ok = None
    /\ sent_run = Zero
    /\ sent_life = Zero
    /\ last_analysis = Never
    /\ prior = ""
    /\ added_cycle = {}
    /\ signum = None
    /\ signal_at = ""
    /\ saved = None
    /\ save_ok = None

\* line 113: return self._parse_analysis(content)
ParseAnalysis ==
    /\ pc = "parse"
    /\ analysis' = Some(parse_analysis(content[1]))
    /\ pc' = "parsed"
    /\ UNCHANGED <<exit_status, processed_articles, file, all_articles, cat, attempt, i,
                   article_id, content, published_at, run, cycle, ghost>>

NextParse == ParseAnalysis

SpecParse == InitParse /\ [][NextParse]_vars

\* ================================================================== claims
\* The processing of the current item has ended: it returned, or it raised.
StepEnded == pc = "return" \/ (pc = "except" /\ outcome = "raised")

MidCycle == {"process", "analyze", "format", "format_return", "send", "mark", "return", "save"}

\* C1: an item with a headline whose analysis is accepted gets exactly one send in
\* a run, however many cycles process it, and its fingerprint is in the store after
\* each of these cycles.
C1_DedupIdempotence ==
    /\ \A f \in Fingerprints : sent_run[f] <= 1
    /\ (StepEnded /\ article.dict /\ ~NoHeadline(article) /\ Accepts(analysis))
          => (sent_run[article_id[1]] = 1 /\ article_id[1] \in processed_articles)
    /\ \A f \in Fingerprints :
          (sent_run[f] = 1 /\ pc \in {"fetch", "save", "sleep"}) => f \in processed_articles

\* C2: over the life of the state file, restarts included, a send is attempted at most
\* once for each fingerprint.
C2_AtMostOnceAcrossRestarts == \A f \in Fingerprints : sent_life[f] <= 1

\* C3: a send is attempted only for an accepted analysis, and an item that is new, has
\* a headline and an accepted analysis gets exactly one send in its processing step.
C3_FilterCorrectness ==
    /\ step_sends > 0 => Accepts(analysis)
    /\ (/\ StepEnded
        /\ article.dict
        /\ outcome # "seen"
        /\ ~NoHeadline(article)
        /\ Accepts(analysis)) => step_sends = 1

\* The tokens a load would find in the file now.
PersistedTokens == IF file.exists THEN ParseTokens(file.text) ELSE {}

\* C4 as stated: after a shutdown signal has ended the process, every fingerprint
\* added in the cycle is in the file.
C4_ShutdownPersists == pc = "exited" => added_cycle \subseteq PersistedTokens

\* C4 amended: the same, when the handler's save wrote the file.
C4_ShutdownPersistsIfWritten ==
    (pc = "exited" /\ save_ok = Some(TRUE)) => added_cycle \subseteq PersistedTokens

\* A fingerprint was added in the cycle, the signal came before the cycle's save, and
\* the handler's save wrote the file.
C4_Witness ==
    /\ pc = "exited"
    /\ save_ok = Some(TRUE)
    /\ added_cycle # {}
    /\ signal_at \in MidCycle

\* C5: once a shutdown signal has been delivered (the handler runs to its end in one
\* step) the process has exited with status 0, so nothing is analyzed or sent after it.
C5_ShutdownTerminates ==
    signum # None => (pc = "exited" /\ exit_status = Some(0))

\* The articles of categories c.. in order, a failed category giving none.
RECURSIVE ConcatFrom(_)
ConcatFrom(c) ==
    IF c > Len(news_categories) THEN <<>> ELSE contributed[c].articles \o ConcatFrom(c + 1)

\* C6: _fetch_news never raises (run's handler is reached from an item, or from the
\* sleep after the save, only); when it returns every category has been fetched to
\* its end, a failed one gives no articles, and the result is the concatenation of
\* what the others returned, in category order.
C6_FetcherResilience ==
    /\ pc = "except" => (outcome = "raised" \/ save_ok # None)
    /\ pc = "fetched" =>
          /\ \A c \in 1..Len(news_categories) :
                /\ contributed[c].state \in {"ok", "failed"}
                /\ contributed[c].state = "failed" => contributed[c].articles = <<>>
          /\ all_articles = ConcatFrom(1)

\* The first category failed on every attempt, the second returned an article.
C6_Witness ==
    /\ pc = "fetched"
    /\ contributed[1].state = "failed"
    /\ contributed[2].state = "ok"
    /\ all_articles # <<>>

\* C7: after a successful save and a load of what it wrote, the store is the set that
\* was saved, whatever the order of the lines.
C7_RoundTrip == (saved # None /\ pc = "fetch") => processed_articles = saved[1]

\* Two tokens were saved, written in one of their two orders, and loaded.
C7_Witness ==
    /\ pc = "fetch"
    /\ saved = Some({hexdigest(<<"a">>), hexdigest(<<"b">>)})
    /\ file.text = JoinLines(<<hexdigest(<<"b">>), hexdigest(<<"a">>)>>)

\* C8: a failed send is the only send of its step, the fingerprint is added in that
\* step all the same, and the step returns to the loop.
C8_BestEffortDelivery ==
    /\ send_ok = Some(FALSE) => (step_sends = 1 /\ pc \in {"mark", "return"})
    /\ (pc = "return" /\ send_ok = Some(FALSE))
          => (article_id[1] \in processed_articles /\ ENABLED NextArticle)

\* A send failed, the step is over and another article follows.
C8_Witness ==
    /\ pc = "return"
    /\ send_ok = Some(FALSE)
    /\ i < Len(all_articles)

\* C9: an absent analysis ends the step with no send and the fingerprint not in the
\* store, the loop goes on, and a fingerprint whose latest analysis was absent is never
\* in the store, so the item is analyzed again when it comes back.
C9_AnalysisFailureRetried ==
    /\ outcome = "absent" =>
          /\ pc = "return"
          /\ analysis = None
          /\ step_sends = 0
          /\ article_id[1] \notin processed_articles
          /\ ENABLED NextArticle
    /\ \A f \in Fingerprints : last_analysis[f] = "absent" => f \notin processed_articles
    /\ (pc = "return" /\ outcome = "seen") => last_analysis[article_id[1]] # "absent"

\* In the second cycle of a run the only article of the batch, whose analysis had come
\* back absent, has been analyzed again.
C9_Witness ==
    /\ pc = "return"
    /\ prior = "absent"
    /\ run = 1
    /\ cycle > 1
    /\ Len(all_articles) = 1

\* C10 as stated: the fingerprint of every item the analyzer returned a result for is
\* in the store when its step returns, and no fingerprint is analyzed twice.
C10_StoreCompleteness ==
    /\ (pc = "return" /\ outcome \in {"rejected", "notified"})
          => article_id[1] \in processed_articles
    /\ prior \in {"", "never"}

\* C10 amended: the fingerprint of every item a send was attempted for is in the
\* store when its step returns; a fingerprint in the store is not analyzed again in
\* the run and gets no second send in the run; a rejected item is not added.
C10_StoreCompletenessOnAccept ==
    /\ (pc = "return" /\ outcome = "notified")
          => (step_sends = 1 /\ article_id[1] \in processed_articles)
    /\ (pc = "return" /\ outcome = "rejected") => article_id[1] \notin processed_articles
    /\ pc \in {"analyze", "format", "format_try", "format_return", "send", "mark"}
          => article_id[1] \notin processed_articles
    /\ \A f \in Fingerprints : f \in processed_articles => sent_run[f] <= 1

\* A step has sent and returned, its fingerprint in the store.
C10_Witness ==
    /\ pc = "return"
    /\ outcome = "notified"
    /\ article_id[1] \in processed_articles

\* The value v is one of `words`, case ignored.
OneOf(v, words) == \E w \in words : Len(v) = Len(w) /\ LitAt(v, 1, w)

\* C11: whatever the text, the parser returns a mapping with exactly the six keys,
\* and each value is the sentinel "N/A" or a value of its field's pattern:
\* Recommendation is Buy, Sell or Hold (case ignored), Confidence and Risk are Low,
\* Medium or High, Why and Sector hold no newline, and Ticker is 1 to 5 uppercase
\* letters.
C11_ParserTotality ==
    pc = "parsed" =>
        LET r == analysis[1]
        IN  /\ DOMAIN r = {FieldNames[k] : k \in 1..6}
            /\ r.Recommendation = NA \/ OneOf(r.Recommendation, {Buy, Sell, Hold})
            /\ r.Confidence = NA \/ OneOf(r.Confidence, {Low, Medium, High})
            /\ r.Risk = NA \/ OneOf(r.Risk, {Low, Medium, High})
            /\ r.Why = NA \/ \A k \in 1..Len(r.Why) : r.Why[k] # NL
            /\ r.Sector = NA \/ (r.Sector # <<>> /\ \A k \in 1..Len(r.Sector) : r.Sector[k] # NL)
            /\ r.Ticker = NA
               \/ (Len(r.Ticker) \in 1..5 /\ \A k \in 1..Len(r.Ticker) : r.Ticker[k] \in DOMAIN ToLower)

\* In `text` the first occurrence of the k-th label is followed by a space and the
\* value v, and then by whitespace and the label `next`, or (next = <<>>) by the end
\* of the text.
LabelledThen(text, k, v, next) ==
    LET piece == Labels[k] \o <<" ">> \o v
        starts == {s \in 1..Len(text) : LitAt(text, s, Labels[k])}
    IN  /\ starts # {}
        /\ LET s == CHOOSE h \in starts : \A g \in starts : h <= g
               e == s + Len(piece)
           IN  /\ e - 1 <= Len(text)
               /\ SubSeq(text, s, e - 1) = piece
               /\ IF next = <<>> THEN e = Len(text) + 1
                  ELSE e <= Len(text) /\ text[e] \in Whitespace /\ LitAt(text, e + 1, next)

\* In `text` the first occurrence of the k-th label is followed by a space and its
\* canonical value, and then by whitespace or the end of the text.
Labelled(text, k) ==
    \/ LabelledThen(text, k, Canonical[k], <<>>)
    \/ \E j \in 1..6 : LabelledThen(text, k, Canonical[k], Labels[j])

\* C12: when "Why:" is followed by a rationale and then by another label or the end
\* of the text, the Why field is exactly that rationale, and every other labelled
\* field of the text is extracted too.
C12_ParserFieldIsolation ==
    (/\ pc = "parsed"
     /\ \/ LabelledThen(content[1], 4, Rationale, <<>>)
        \/ \E j \in (1..6) \ {4} : LabelledThen(content[1], 4, Rationale, Labels[j])) =>
        /\ analysis[1].Why = Rationale
        /\ \A k \in 1..6 : Labelled(content[1], k) => analysis[1][FieldNames[k]] = Canonical[k]

\* C13: when the processing of an item raises, the loop goes on with the next item
\* of the batch, or with the save of the cycle after the last one (unless a signal
\* ends the process).
C13_PerItemContainment ==
    [][outcome = "raised" =>
           \/ pc' = (IF i < Len(all_articles) THEN "process" ELSE "save")
           \/ pc' = "exited"]_vars

\* C14: the process ends only by one of the two signals, with status 0; in
\* particular a state file that cannot be read does not end it.
C14_ReadFailureNotFatal ==
    ~Running => (pc = "exited" /\ signum # None /\ exit_status = Some(0))

\* C15: a request of _fetch_news is the first, second or third of its category, and
\* of a category that has neither succeeded nor failed for good; after a response
\* with a list of articles the fetch moves to the next category; after any other
\* response (network error, HTTP error status, body without a list of articles) the
\* category is requested again if it was not the third request, and has failed with
\* no articles otherwise; when _fetch_news returns every category has been requested.
C15_BoundedFetchRetry ==
    [][(pc = "request" /\ pc' # "exited") =>
           /\ attempt \in 1..StopAfterAttempt
           /\ contributed[cat].state = "not_asked"
           /\ IF response' = "ok"
              THEN /\ cat' = cat + 1
                   /\ contributed'[cat].state = "ok"
              ELSE IF attempt < StopAfterAttempt
              THEN /\ pc' = "request"
                   /\ cat' = cat
                   /\ attempt' = attempt + 1
                   /\ contributed' = contributed
                   /\ all_articles' = all_articles
              ELSE /\ cat' = cat + 1
                   /\ contributed'[cat] = Contribution("failed", <<>>)
                   /\ all_articles' = all_articles
           /\ pc' = "fetched" =>
                 \A c \in 1..Len(news_categories) : contributed'[c].state # "not_asked"]_vars

\* The second category has answered twice, the second time with a body without a list
\* of articles, and is about to be requested for the third time.
C15_Witness ==
    /\ pc = "request"
    /\ cat = 2
    /\ contributed[1].state = "ok"
    /\ response = "no_articles_list"
    /\ attempt = StopAfterAttempt

\* C16: a fingerprint enters the store of a running process only at line 177, right
\* after the one send of its item, whose analysis names a ticker; a step that ends
\* with the item seen, without headline, with an absent or a rejected analysis leaves
\* the store as it was.
C16_MarkOnlyOnAccept ==
    [][/\ \A f \in Fingerprints :
             (f \notin processed_articles /\ f \in processed_articles') =>
                 \/ pc = "load"
                 \/ /\ pc = "mark"
                    /\ article_id = Some(f)
                    /\ step_sends = 1
                    /\ send_ok # None
                    /\ analysis # None
                    /\ analysis[1].Ticker # NA
       /\ (pc \in {"process", "analyze"} /\ pc' = "return") =>
             /\ outcome' \in {"seen", "no_headline", "absent", "rejected"}
             /\ processed_articles' = processed_articles
       /\ (pc = "return" /\ outcome # "notified" /\ pc' # "exited") =>
             processed_articles' = processed_articles]_vars

\* The first item of the batch was notified and marked, the second was rejected by
\* the filter: the store holds the first fingerprint only.
C16_Witness ==
    /\ pc = "return"
    /\ i = 2
    /\ outcome = "rejected"
    /\ processed_articles = added_cycle
    /\ Cardinality(processed_articles) = 1
    /\ article_id[1] \notin processed_articles

\* C17: when the write of line 187's save fails, run() is at its sleep with the
\* in-memory set unchanged and the process running; and whether an item is skipped as
\* seen is decided by the in-memory set.
C17_SaveFailureContained ==
    [][/\ (pc = "save" /\ pc' # "exited" /\ save_ok' = Some(FALSE)) =>
             /\ pc' = "sleep"
             /\ processed_articles' = processed_articles
             /\ exit_status' = None
       /\ (pc = "process" /\ pc' = "return") =>
             (outcome' = "seen" <=> article_id'[1] \in processed_articles)]_vars

\* No save of this process has written the file, the end-of-cycle save left it empty;
\* in the second cycle an item is skipped as seen though the file does not hold it.
C17_Witness ==
    /\ run = 1
    /\ cycle = 2
    /\ signum = None
    /\ saved = None
    /\ file.exists
    /\ pc = "return"
    /\ outcome = "seen"
    /\ article_id[1] \notin PersistedTokens

\* C18: every cycle has its save: run() pauses between two cycles (the sleep of line
\* 188, or the pause of line 191) only after the save of line 187; when that save
\* wrote the file, the tokens of the file are the in-memory set.
C18_PersistEachCycle ==
    pc \in {"sleep", "except"} =>
        /\ save_ok # None
        /\ save_ok = Some(TRUE) =>
              /\ file.exists
              /\ PersistedTokens = processed_articles

\* C19: nothing raised after the load ends the process; an exception that reaches
\* run()'s handler leaves the store as it is, with every fingerprint added in the
\* cycle; and after the pause of line 191 the loop is at its next fetch with the same
\* store (unless a signal ends the process).
C19_TopLevelContainment ==
    [][/\ pc' = "crashed" => pc = "load"
       /\ (pc # "except" /\ pc' = "except") =>
             /\ processed_articles' = processed_articles
             /\ added_cycle \subseteq processed_articles
       /\ (pc = "except" /\ pc' # "exited") =>
             /\ pc' = "fetch"
             /\ processed_articles' = processed_articles
             /\ added_cycle' \subseteq processed_articles']_vars

\* A cycle added a fingerprint and was then ended by an exception before its save;
\* the pause is over and the loop is at its next fetch, the store holding it.
C19_Witness ==
    /\ pc = "fetch"
    /\ save_ok = None
    /\ signum = None
    /\ added_cycle # {}
    /\ added_cycle \subseteq processed_articles

\* C20: after the load, no step of a running process takes a member out of the
\* in-memory set; and a save that writes the file writes a superset of what the
\* successful save before it in the same process wrote.
C20_StoreMonotonic ==
    [][/\ (pc # "load" /\ Running /\ pc' \notin {"exited", "crashed"}) =>
             processed_articles \subseteq processed_articles'
       /\ (saved # None /\ saved' # None) => saved[1] \subseteq saved'[1]]_vars

\* In the second cycle of a process a save has written two fingerprints, one of them
\* added in this cycle.
C20_Witness ==
    /\ run = 1
    /\ cycle = 2
    /\ pc = "sleep"
    /\ saved = Some(processed_articles)
    /\ Cardinality(processed_articles) = 2
    /\ Cardinality(added_cycle) = 1

====
